---- MODULE Spec2Model ----
(***************************************************************************)
(* Model of setup.py, the PennyLane lab bootstrap script: the environment  *)
(* detector, the Python-version gate, the two install paths, the           *)
(* verification-script emitter and the orchestrator main().                *)
(*                                                                         *)
(* One behaviour is a series of runs of the script (python setup.py) in    *)
(* one working directory: the file verify_install.py persists from one run *)
(* to the next, everything else belongs to a single process.               *)
(***************************************************************************)
EXTENDS Integers, Sequences, FiniteSets, TLC

\* ---------------------------------------------------------------- bounds
MaxRuns == 2            \* runs of the script in one working directory
MaxMajor == 4           \* interpreter majors 2..MaxMajor
MaxMinor == 11          \* interpreter minors 8..MaxMinor
MaxReturnCode == 2      \* subprocess return codes 0..MaxReturnCode

\* --------------------------------------------------------- configuration
ENV_NAME == "pennylane_lab"
REQUIRED_PY_MAJOR == 3
REQUIRED_PY_MINOR == 10
TARGET_PY_VERSION == "3.13"
PIP_PACKAGES ==
    << "pennylane>=0.38", "pennylane-qiskit", "numpy>=2.3.5",
       "stim", "matplotlib", "jupyter" >>

\* ------------------------------------------------- the process environment
NoAttr == "<no attribute>"      \* sys has no attribute base_prefix
Unset == "<unset>"              \* os.environ.get(...) returns None
Prefixes == { "/usr", "/home/u/.venv" }
BasePrefixes == { "/usr", NoAttr }
CondaDefaultEnvs == { Unset, "", "base" }
Executables == { "/usr/bin/python3", "/home/u/.venv/bin/python" }
Majors == 2..MaxMajor
Minors == 8..MaxMinor
ReturnCodes == 0..MaxReturnCode

\* ------------------------------------------------------------ the template
\* The text create_verification_script writes (the literal bound to `code`).
code ==
    "\n"
    \o "import pennylane as qml\n"
    \o "import matplotlib.pyplot as plt\n"
    \o "import sys\n"
    \o "\n"
    \o "print(f\"\\nPython Version: {sys.version.split()[0]}\")\n"
    \o "print(f\"PennyLane Version: {qml.version()}\")\n"
    \o "def main():\n"
    \o "    # 1. Device Creation Check\n"
    \o "    try:\n"
    \o "        dev = qml.device(\"default.qubit\", wires=2)\n"
    \o "        print(\"Device created successfully.\")\n"
    \o "    except Exception as e:\n"
    \o "        print(f\"Error creating device: {e}\")\n"
    \o "        sys.exit(1)\n"
    \o "\n"
    \o "    # 2. Circuit Execution Check\n"
    \o "    @qml.qnode(dev)\n"
    \o "    def circuit(theta):\n"
    \o "        qml.RX(theta, wires=0)\n"
    \o "        qml.CNOT(wires=[0, 1])\n"
    \o "        return qml.expval(qml.PauliZ(0))\n"
    \o "\n"
    \o "    try:\n"
    \o "        result = circuit(0.5)\n"
    \o "        print(f\"Circuit execution result: {result}\")\n"
    \o "        print(\"SUCCESS: Environment is ready for the lab.\")\n"
    \o "    except Exception as e:\n"
    \o "        print(f\"Error running circuit: {e}\")\n"
    \o "if __name__ == \"__main__\":\n"
    \o "    main()\n"

NoFile == "<no file>"           \* verify_install.py does not exist
StaleFile == "# left over from an earlier checkout\n"
InitialFiles == { NoFile, StaleFile, code }

\* ------------------------------------------------------------------ state
VARIABLES
    major, minor,       \* sys.version_info.major / .minor
    prefix,             \* sys.prefix
    base_prefix,        \* sys.base_prefix, or NoAttr
    conda_default_env,  \* os.environ.get("CONDA_DEFAULT_ENV"), or Unset
    conda_on_path,      \* shutil.which("conda") finds an executable
    executable,         \* sys.executable
    pc,                 \* position of the process in main()
    branch,             \* arm of main() the detector selected
    created_new,        \* main()'s local created_new
    calls,              \* subprocess.check_call invocations of this run
    exit_code,          \* exit status of the process, -1 while it runs
    file,               \* content of verify_install.py, or NoFile
    written,            \* verify_install.py was written in this run
    emissions,          \* arms of main() that wrote the file, oldest first
    runs                \* number of runs started so far

env == << major, minor, prefix, base_prefix, conda_default_env,
          conda_on_path, executable >>
vars == << major, minor, prefix, base_prefix, conda_default_env,
           conda_on_path, executable, pc, branch, created_new, calls,
           exit_code, file, written, emissions, runs >>

Running == -1

\* ---------------------------------------------------------- pure functions
\* getattr(sys, "base_prefix", sys.prefix)
getattr_base_prefix(p, bp) == IF bp = NoAttr THEN p ELSE bp

is_virtual_env_presence_ignored(p, bp, ce) ==
    p # getattr_base_prefix(p, bp)

is_virtual_env(p, bp, ce) ==
    LET is_venv == (p # getattr_base_prefix(p, bp))
        is_conda == (ce # Unset)
    IN  is_venv \/ is_conda

version_too_old_minor_only(ma, mi) == mi < REQUIRED_PY_MINOR

\* the condition of check_python_version under which it calls sys.exit(1)
version_too_old(ma, mi) ==
    ma < REQUIRED_PY_MAJOR \/ (ma = REQUIRED_PY_MAJOR /\ mi < REQUIRED_PY_MINOR)

pip_install_cmd_via_conda(exe) ==
    << "conda", "run", "-n", ENV_NAME, "pip", "install" >> \o PIP_PACKAGES

\* cmd of install_packages_current_env
pip_install_cmd(exe) == << exe, "-m", "pip", "install" >> \o PIP_PACKAGES

\* the argument list of the check_call in create_conda_env_if_needed
conda_create_cmd ==
    << "conda", "create", "-n", ENV_NAME, "python=" \o TARGET_PY_VERSION, "-y" >>

conda_run_cmd_in_place ==
    << "python", "-m", "pip", "install" >> \o PIP_PACKAGES

\* pip_cmd of install_packages_conda_env
conda_run_cmd ==
    << "conda", "run", "-n", ENV_NAME, "pip", "install" >> \o PIP_PACKAGES

open_a_then_write(old, text) == IF old = NoFile THEN text ELSE old \o text

\* open(name, "w") truncates or creates the file; f.write(text) fills it
open_w_then_write(old, text) == text

\* sys.exit(1): SystemExit reaches the top of the process, nothing catches it
sys_exit_1 ==
    /\ pc' = "exited"
    /\ exit_code' = 1

\* ------------------------------------------------------------------- Init
Init ==
    /\ major \in Majors
    /\ minor \in Minors
    /\ prefix \in Prefixes
    /\ base_prefix \in BasePrefixes
    /\ conda_default_env \in CondaDefaultEnvs
    /\ conda_on_path \in BOOLEAN
    /\ executable \in Executables
    /\ pc = "main"
    /\ branch = "none"
    /\ created_new = FALSE
    /\ calls = << >>
    /\ exit_code = Running
    /\ file \in InitialFiles
    /\ written = FALSE
    /\ emissions = << >>
    /\ runs = 1

\* ---------------------------------------------------------------- actions
\* main(): the banner and the `if is_virtual_env():` that selects the arm
main_detect ==
    /\ pc = "main"
    /\ branch' = IF is_virtual_env(prefix, base_prefix, conda_default_env)
                 THEN "current" ELSE "conda"
    /\ pc' = "check_python_version"
    /\ UNCHANGED << env, created_new, calls, exit_code, file, written, emissions, runs >>

\* check_python_version(), called first on either arm of main()
check_python_version ==
    /\ pc = "check_python_version"
    /\ IF version_too_old(major, minor)
       THEN sys_exit_1
       ELSE /\ pc' = IF branch = "current"
                     THEN "install_packages_current_env"
                     ELSE "create_conda_env_if_needed"
            /\ UNCHANGED exit_code
    /\ UNCHANGED << env, branch, created_new, calls, file, written, emissions, runs >>

install_packages_current_env_failure_ignored ==
    /\ pc = "install_packages_current_env"
    /\ \E rc \in ReturnCodes :
          /\ calls' = Append(calls, [cmd |-> pip_install_cmd(executable), rc |-> rc])
          /\ pc' = "create_verification_script"
          /\ UNCHANGED exit_code
    /\ UNCHANGED << env, branch, created_new, file, written, emissions, runs >>

\* install_packages_current_env(): one check_call, sys.exit(1) when it raises
install_packages_current_env ==
    /\ pc = "install_packages_current_env"
    /\ \E rc \in ReturnCodes :
          /\ calls' = Append(calls, [cmd |-> pip_install_cmd(executable), rc |-> rc])
          /\ IF rc # 0
             THEN sys_exit_1
             ELSE /\ pc' = "create_verification_script"
                  /\ UNCHANGED exit_code
    /\ UNCHANGED << env, branch, created_new, file, written, emissions, runs >>

create_conda_env_if_needed_conda_missing_returns_false ==
    /\ pc = "create_conda_env_if_needed"
    /\ IF is_virtual_env(prefix, base_prefix, conda_default_env) \/ ~conda_on_path
       THEN /\ created_new' = FALSE
            /\ pc' = "main_return"
            /\ UNCHANGED << calls, exit_code >>
       ELSE \E rc \in ReturnCodes :
               /\ calls' = Append(calls, [cmd |-> conda_create_cmd, rc |-> rc])
               /\ IF rc # 0
                  THEN /\ sys_exit_1
                       /\ UNCHANGED created_new
                  ELSE /\ created_new' = TRUE
                       /\ pc' = "install_packages_conda_env"
                       /\ UNCHANGED exit_code
    /\ UNCHANGED << env, branch, file, written, emissions, runs >>

create_conda_env_if_needed_failure_ignored ==
    /\ pc = "create_conda_env_if_needed"
    /\ IF is_virtual_env(prefix, base_prefix, conda_default_env)
       THEN /\ created_new' = FALSE
            /\ pc' = "main_return"
            /\ UNCHANGED << calls, exit_code >>
       ELSE IF ~conda_on_path
       THEN /\ sys_exit_1
            /\ UNCHANGED << created_new, calls >>
       ELSE \E rc \in ReturnCodes :
               /\ calls' = Append(calls, [cmd |-> conda_create_cmd, rc |-> rc])
               /\ created_new' = TRUE
               /\ pc' = "install_packages_conda_env"
               /\ UNCHANGED exit_code
    /\ UNCHANGED << env, branch, file, written, emissions, runs >>

\* create_conda_env_if_needed(), and main()'s `if created_new:` on its result:
\* return False inside an environment, sys.exit(1) without conda or when
\* `conda create` fails, return True once the environment is created
create_conda_env_if_needed ==
    /\ pc = "create_conda_env_if_needed"
    /\ IF is_virtual_env(prefix, base_prefix, conda_default_env)
       THEN /\ created_new' = FALSE
            /\ pc' = "main_return"
            /\ UNCHANGED << calls, exit_code >>
       ELSE IF ~conda_on_path
       THEN /\ sys_exit_1
            /\ UNCHANGED << created_new, calls >>
       ELSE \E rc \in ReturnCodes :
               /\ calls' = Append(calls, [cmd |-> conda_create_cmd, rc |-> rc])
               /\ IF rc # 0
                  THEN /\ sys_exit_1
                       /\ UNCHANGED created_new
                  ELSE /\ created_new' = TRUE
                       /\ pc' = "install_packages_conda_env"
                       /\ UNCHANGED exit_code
    /\ UNCHANGED << env, branch, file, written, emissions, runs >>

\* install_packages_conda_env(): one check_call, sys.exit(1) when it raises
install_packages_conda_env ==
    /\ pc = "install_packages_conda_env"
    /\ \E rc \in ReturnCodes :
          /\ calls' = Append(calls, [cmd |-> conda_run_cmd, rc |-> rc])
          /\ IF rc # 0
             THEN sys_exit_1
             ELSE /\ pc' = "create_verification_script"
                  /\ UNCHANGED exit_code
    /\ UNCHANGED << env, branch, created_new, file, written, emissions, runs >>

\* create_verification_script(): verify_install.py, opened "w", gets `code`
create_verification_script ==
    /\ pc = "create_verification_script"
    /\ file' = open_w_then_write(file, code)
    /\ written' = TRUE
    /\ emissions' = Append(emissions, branch)
    /\ pc' = "main_return"
    /\ UNCHANGED << env, branch, created_new, calls, exit_code, runs >>

\* main() prints its closing lines and returns: the process ends, status 0
main_return ==
    /\ pc = "main_return"
    /\ pc' = "exited"
    /\ exit_code' = 0
    /\ UNCHANGED << env, branch, created_new, calls, file, written, emissions, runs >>

\* `python setup.py` is started again in the same working directory: a new
\* process with its own interpreter and environment; only the file remains
run_again ==
    /\ pc = "exited"
    /\ runs < MaxRuns
    /\ runs' = runs + 1
    /\ major' \in Majors
    /\ minor' \in Minors
    /\ prefix' \in Prefixes
    /\ base_prefix' \in BasePrefixes
    /\ conda_default_env' \in CondaDefaultEnvs
    /\ conda_on_path' \in BOOLEAN
    /\ executable' \in Executables
    /\ pc' = "main"
    /\ branch' = "none"
    /\ created_new' = FALSE
    /\ calls' = << >>
    /\ exit_code' = Running
    /\ written' = FALSE
    /\ UNCHANGED << file, emissions >>

Next ==
    \/ main_detect
    \/ check_python_version
    \/ install_packages_current_env
    \/ create_conda_env_if_needed
    \/ install_packages_conda_env
    \/ create_verification_script
    \/ main_return
    \/ run_again

Spec == Init /\ [][Next]_vars

TypeOK ==
    /\ major \in Majors /\ minor \in Minors
    /\ prefix \in Prefixes /\ base_prefix \in BasePrefixes
    /\ conda_default_env \in CondaDefaultEnvs
    /\ conda_on_path \in BOOLEAN
    /\ executable \in Executables
    /\ pc \in { "main", "check_python_version", "install_packages_current_env",
                "create_conda_env_if_needed", "install_packages_conda_env",
                "create_verification_script", "main_return", "exited" }
    /\ branch \in { "none", "current", "conda" }
    /\ created_new \in BOOLEAN
    /\ exit_code \in { Running, 0, 1 }
    /\ written \in BOOLEAN
    /\ emissions \in Seq({ "current", "conda" }) /\ Len(emissions) <= runs
    /\ runs \in 1..MaxRuns

\* ------------------------------------------------------------- vocabulary
\* the version gate has been passed through in this run
VersionChecked == branch # "none" /\ pc # "check_python_version"

\* (ma, mi) >= (3, 10) in the order of version numbers
AtLeast_3_10(ma, mi) == ma > 3 \/ (ma = 3 /\ mi >= 10)

PackageList ==
    << "pennylane>=0.38", "pennylane-qiskit", "numpy>=2.3.5",
       "stim", "matplotlib", "jupyter" >>
InPlaceInstall(c) == c = << executable, "-m", "pip", "install" >> \o PackageList
CondaCreate(c) ==
    c = << "conda", "create", "-n", "pennylane_lab", "python=3.13", "-y" >>
CondaRun(c) ==
    c = << "conda", "run", "-n", "pennylane_lab", "pip", "install" >> \o PackageList
UsesConda(c) == c[1] = "conda"

CallIndexes == 1..Len(calls)
ExitedNonZero == pc = "exited" /\ exit_code # 0 /\ exit_code # Running

C2_AsStated ==
    branch # "none" =>
        ((branch = "current") <=>
            \/ base_prefix # NoAttr /\ prefix # base_prefix
            \/ conda_default_env # Unset /\ conda_default_env # "")

\* C2, amended: the detector answers true exactly when the prefix differs
\* from the base prefix or CONDA_DEFAULT_ENV is present in the environment,
\* whatever its value, the empty string included.
C2_Detector ==
    branch # "none" =>
        ((branch = "current") <=>
            \/ base_prefix # NoAttr /\ prefix # base_prefix
            \/ conda_default_env # Unset)

C2_Witness ==
    /\ branch = "current"
    /\ prefix = "/usr" /\ base_prefix = "/usr" /\ conda_default_env = ""

\* C3: in a run whose detector answered isolated, no conda create and no
\* conda run is ever called, and when verify_install.py has been written the
\* run has made exactly one subprocess call, the in-place
\* <interpreter> -m pip install of the package list.
C3_IsolatedPath ==
    branch = "current" =>
        /\ \A i \in CallIndexes : ~UsesConda(calls[i].cmd)
        /\ written => Len(calls) = 1 /\ InPlaceInstall(calls[1].cmd)

C3_Witness == branch = "current" /\ written /\ Len(calls) = 1

\* C4: in a run whose detector answered not isolated and where conda is not
\* on the search path, no subprocess is ever called, verify_install.py is not
\* written, the run never gets past environment creation and the process
\* ends with a non-zero status.
C4_CondaMissing ==
    branch = "conda" /\ ~conda_on_path =>
        /\ calls = << >>
        /\ ~written
        /\ pc \in { "check_python_version", "create_conda_env_if_needed", "exited" }
        /\ pc = "exited" => exit_code = 1

C4_Witness ==
    /\ branch = "conda" /\ ~conda_on_path /\ AtLeast_3_10(major, minor)
    /\ pc = "exited" /\ exit_code = 1

\* C5: in a run whose detector answered not isolated, with conda on the path
\* and a creation call that returned zero, the first call is
\* conda create -n <env> python=<target> -y, the in-place installer is never
\* called, and when verify_install.py has been written exactly two calls have
\* been made, the second being conda run -n <env> pip install <packages>.
C5_CondaPath ==
    branch = "conda" /\ conda_on_path /\ calls # << >> /\ calls[1].rc = 0 =>
        /\ CondaCreate(calls[1].cmd)
        /\ \A i \in CallIndexes : ~InPlaceInstall(calls[i].cmd) /\ UsesConda(calls[i].cmd)
        /\ written => Len(calls) = 2 /\ CondaRun(calls[2].cmd)

C5_Witness == branch = "conda" /\ written /\ Len(calls) = 2

\* C6: in a run whose detector answered not isolated, with conda on the path
\* and a creation call that returned non-zero, the process has ended with
\* status 1, verify_install.py is not written and conda run was never called.
C6_CreationFails ==
    branch = "conda" /\ conda_on_path /\ calls # << >> /\ calls[1].rc # 0 =>
        /\ pc = "exited" /\ exit_code = 1
        /\ ~written
        /\ Len(calls) = 1 /\ CondaCreate(calls[1].cmd)

C6_Witness ==
    /\ branch = "conda" /\ conda_on_path
    /\ Len(calls) = 1 /\ calls[1].rc # 0 /\ pc = "exited"

\* C7 as stated: on the not-isolated arm the version check never stops the
\* run; from the check the run always goes on to create_conda_env_if_needed.
C7_CheckDoesNotGate ==
    [][pc = "check_python_version" /\ branch = "conda"
          => pc' = "create_conda_env_if_needed"]_vars

\* C8: once verify_install.py has been written, in this run or an earlier
\* one and on whichever arm, its content is exactly the template; every
\* write leaves the template, whatever the file held before.
C8_SameContent ==
    /\ emissions # << >> => file = code
    /\ written => file = code /\ emissions # << >>
    /\ file \in InitialFiles

C8_Witness ==
    /\ Len(emissions) >= 2
    /\ \E i, j \in 1..Len(emissions) :
          emissions[i] = "current" /\ emissions[j] = "conda"
    /\ written /\ file = code

\* some checked failure has happened in this run
CheckedFailure ==
    \/ VersionChecked /\ ~AtLeast_3_10(major, minor)
    \/ /\ branch = "conda" /\ ~conda_on_path
       /\ pc \notin { "main", "check_python_version", "create_conda_env_if_needed" }
    \/ \E i \in CallIndexes : calls[i].rc # 0

C10_SuccessWritesScript ==
    /\ pc = "exited" /\ exit_code = 0 =>
          /\ written /\ file = code
          /\ calls # << >>
          /\ calls[Len(calls)].rc = 0
          /\ InPlaceInstall(calls[Len(calls)].cmd) \/ CondaRun(calls[Len(calls)].cmd)
    /\ pc = "main_return" => written
    /\ pc = "install_packages_conda_env" => created_new

C10_Witness == pc = "exited" /\ exit_code = 0 /\ branch = "conda" /\ created_new

====
